---- MODULE Spec2Model ----
(***************************************************************************)
(* Model of the reward-model training loop of chatllama                    *)
(* (apps/accelerate/chatllama/chatllama/rlhf/reward.py): RewardTrainer's   *)
(* construction, RewardTrainer.train with its resume/skip logic, the       *)
(* checkpoint cadence counter, the three backend branches, the validation  *)
(* pass and the final model save, plus RewardModel.get_reward's length     *)
(* check.                                                                  *)
(*                                                                         *)
(* Abstractions: a batch is identified by its (epoch, index) pair; the     *)
(* model weights are the sequence of (epoch, index) pairs whose optimizer  *)
(* update has been applied; a statistics record is the kind of loss and    *)
(* the (epoch, index) it was computed for; the tokenizer is an opaque      *)
(* collaborator that yields a token length.                                *)
(***************************************************************************)
EXTENDS Integers, Sequences, FiniteSets, TLC

\* ------------------------------------------------------------------ bounds
MaxSamples == 3
MaxBatchSize == 2
MaxEpochs == 2
MaxCheckpointSteps == 2
MaxValSamples == 2
MaxTokLen == 3
MaxRestarts == 1

\* config.max_sequence_length, the bound get_reward compares against
max_sequence_length == 2

\* the value of a snapshot field that the call writing it was not given
NoProgress == -1

VARIABLES
    \* configuration (ConfigReward) and datasets, fixed at construction
    epochs, checkpoint_steps, batch_size, train_len, validation_flag, val_len,
    deepspeed_enable, accelerate_enable,
    \* the optimizer chosen by __init__
    optimizer_kind,
    \* Checkpoint Store: the latest persisted checkpoint
    ckpt,
    \* control position of train() and its locals
    pc, start_epoch, start_step, epoch, epoch_iter, i, batch_iter,
    cnt_checkpoints,
    \* trainer / model state
    mode, weights, opt_steps, sched_steps, training_stats,
    \* the current batch: its token length, the model forward calls made on
    \* it, the backend calls issued for it, what forward returned for it,
    \* the estimate taken from that, and the error it raised ("length", a
    \* "malformed" batch, or a backend error in the "forward" or "backward"
    \* pass)
    cur_len, fwd_calls, calls, forward_out, est_output, error,
    \* history of the current run
    resume_point, loaded, processed, done, saves, used_backends,
    \* history across process restarts
    restarts, prev_done

cfgvars == <<epochs, checkpoint_steps, batch_size, train_len, validation_flag,
             val_len, deepspeed_enable, accelerate_enable, optimizer_kind>>
locvars == <<pc, start_epoch, start_step, epoch, epoch_iter, i, batch_iter,
             cnt_checkpoints>>
modvars == <<mode, weights, opt_steps, sched_steps, training_stats>>
batvars == <<cur_len, fwd_calls, calls, forward_out, est_output, error>>
hisvars == <<resume_point, loaded, processed, done, saves, used_backends>>
runvars == <<restarts, prev_done>>
vars == <<cfgvars, ckpt, locvars, modvars, batvars, hisvars, runvars>>

\* ----------------------------------------------------------------- helpers
Count(s, x) == Cardinality({n \in 1..Len(s) : s[n] = x})
Range(s) == {s[n] : n \in 1..Len(s)}
Last(s) == s[Len(s)]

\* DataLoader(dataset, batch_size): ceil(len / batch_size) batches
NumBatches(len, bs) == (len + bs - 1) \div bs

\* n_iter = int(len(self.train_dataset) / batch_size)
n_iter == train_len \div batch_size

TrainRec(e, s) == [kind |-> "training_loss", epoch |-> e, step |-> s]
ValRec(e, s) == [kind |-> "validation_loss", epoch |-> e, step |-> s]

NoCheckpoint == [exists |-> FALSE, epoch |-> 0, step |-> 0, weights |-> <<>>,
                 opt_steps |-> 0, sched_steps |-> 0, training_stats |-> <<>>]

\* -------------------------------------------------------- pure code pieces
\* (variant: a sequence of exactly the maximum length is rejected too)
LengthViolation_Inclusive(len, maxlen) == len >= maxlen

\* RewardModel.get_reward: the length check and the forward it guards
LengthViolation(len, maxlen) == len > maxlen

\* RewardModel.forward on a batch of bsz examples of len tokens: one reward
\* per example and position, Reward(x, p) standing for the head's output
Reward(x, p) == <<"reward", x, p>>
forward(bsz, len) == [x \in 1..bsz |-> [p \in 1..len |-> Reward(x, p)]]

\* (variant: the reward of the first position is taken)
LastPosition_First(rewards) == [x \in DOMAIN rewards |-> rewards[x][1]]

\* "rewards[:, -1]"
LastPosition(rewards) ==
    [x \in DOMAIN rewards |-> rewards[x][Len(rewards[x])]]

get_reward(bsz, len, maxlen) ==
    IF LengthViolation(len, maxlen)
    THEN [raised |-> TRUE, forward_calls |-> 0, forward_out |-> <<>>,
          rewards |-> <<>>]
    ELSE [raised |-> FALSE, forward_calls |-> 1,
          forward_out |-> forward(bsz, len),
          rewards |-> LastPosition(forward(bsz, len))]

\* the number of examples in batch idx of a dataset of len samples
BatchLen(len, bs, idx) ==
    IF (idx + 1) * bs <= len THEN bs ELSE len - idx * bs

\* __init__: the optimizer
OptimizerKind(ds) == IF ds THEN "DeepSpeedCPUAdam" ELSE "AdamW"

\* (variant: the batch at start_step is dropped too)
SkipBatch_Inclusive(idx, startStep) == idx <= startStep

\* train: "if i < start_step: continue"
SkipBatch(idx, startStep) == idx < startStep

\* train: the forward-pass branch
ForwardCalls(ds) ==
    IF ds THEN <<"model_engine.forward">> ELSE <<"model.get_reward">>

\* (variant: the accelerate flag is tested before the deepspeed flag)
BackwardCalls_AccFirst(ds, acc) ==
    IF acc THEN <<"optimizer.zero_grad", "accelerator.backward",
                  "optimizer.step", "scheduler.step">>
    ELSE IF ds THEN <<"model_engine.backward", "model_engine.step">>
    ELSE <<"optimizer.zero_grad", "loss.backward",
           "optimizer.step", "scheduler.step">>

\* (variant: the gradients are cleared after the backward pass)
BackwardCalls_LateZeroGrad(ds, acc) ==
    IF ds THEN <<"model_engine.backward", "model_engine.step">>
    ELSE IF acc THEN <<"accelerator.backward", "optimizer.zero_grad",
                       "optimizer.step", "scheduler.step">>
    ELSE <<"loss.backward", "optimizer.zero_grad",
           "optimizer.step", "scheduler.step">>

\* train: the backward-pass branch
BackwardCalls(ds, acc) ==
    IF ds THEN <<"model_engine.backward", "model_engine.step">>
    ELSE IF acc THEN <<"optimizer.zero_grad", "accelerator.backward",
                       "optimizer.step", "scheduler.step">>
    ELSE <<"optimizer.zero_grad", "loss.backward",
           "optimizer.step", "scheduler.step">>

\* the backend a call belongs to: the deepspeed engine, the accelerate
\* layer, plain torch autograd, or the model / optimizer / scheduler objects
\* that the accelerated and the plain branch both drive
BackendOf(c) ==
    IF c \in {"model_engine.forward", "model_engine.backward",
              "model_engine.step"} THEN "distributed"
    ELSE IF c = "accelerator.backward" THEN "accelerated"
    ELSE IF c = "loss.backward" THEN "plain"
    ELSE "shared"

BackendsOf(cs) == {BackendOf(cs[n]) : n \in 1..Len(cs)}

\* train: the checkpoint cadence counter
CadenceDue(cnt, n) == cnt % n = 0
\* (variant: the counter restarts at 0 after a save)
CadenceNext_Zero(cnt, n) == IF CadenceDue(cnt, n) THEN 0 ELSE cnt + 1
CadenceNext(cnt, n) == IF CadenceDue(cnt, n) THEN 1 ELSE cnt + 1

\* BaseTrainer.save_checkpoint(current_epoch, current_step, max_epochs,
\* max_steps): the persisted checkpoint
Checkpoint(e, s) ==
    [exists |-> TRUE, epoch |-> e, step |-> s, weights |-> weights,
     opt_steps |-> opt_steps, sched_steps |-> sched_steps,
     training_stats |-> training_stats]

\* (variant: the snapshot is taken before the optimizer step of the batch)
SaveRec_BeforeStep(kind, e, s, me, ms) ==
    [kind |-> kind, epoch |-> e, step |-> s, max_epochs |-> me,
     max_steps |-> ms, k |-> processed,
     weights |-> SubSeq(weights, 1, Len(weights) - 1),
     training_stats |-> training_stats]

\* the entry a save leaves in the run's log of persisted snapshots
SaveRec(kind, e, s, me, ms) ==
    [kind |-> kind, epoch |-> e, step |-> s, max_epochs |-> me,
     max_steps |-> ms, k |-> processed, weights |-> weights,
     training_stats |-> training_stats]

\* BaseTrainer.load_checkpoint: (0, 0) without a checkpoint, otherwise the
\* saved (epoch, step)
load_checkpoint(c) ==
    IF c.exists THEN <<c.epoch, c.step>> ELSE <<0, 0>>

\* ------------------------------------------------------------------- Init
Configs ==
    /\ epochs \in 1..MaxEpochs
    /\ checkpoint_steps \in 1..MaxCheckpointSteps
    /\ batch_size \in 1..MaxBatchSize
    /\ train_len \in 1..MaxSamples
    /\ validation_flag \in BOOLEAN
    /\ val_len \in IF validation_flag THEN 1..MaxValSamples ELSE {0}
    /\ deepspeed_enable \in BOOLEAN
    /\ accelerate_enable \in BOOLEAN
    /\ optimizer_kind = OptimizerKind(deepspeed_enable)

Fresh ==
    /\ pc = "idle"
    /\ start_epoch = 0 /\ start_step = 0
    /\ epoch = 0 /\ epoch_iter = 0 /\ i = 0 /\ batch_iter = 0
    /\ cnt_checkpoints = 0
    /\ mode = "train" /\ weights = <<>> /\ opt_steps = 0 /\ sched_steps = 0
    /\ training_stats = <<>>
    /\ cur_len = 0 /\ fwd_calls = 0 /\ calls = <<>>
    /\ forward_out = <<>> /\ est_output = <<>> /\ error = "none"
    /\ resume_point = <<0, 0>> /\ loaded = FALSE
    /\ processed = 0 /\ done = <<>> /\ saves = <<>> /\ used_backends = {}
    /\ restarts = 0 /\ prev_done = <<>>

\* a checkpoint that an earlier run (possibly under another configuration)
\* may have left in the store
StoredCheckpoints ==
    {NoCheckpoint} \cup
    {[NoCheckpoint EXCEPT !.exists = TRUE, !.epoch = e, !.step = s] :
        e \in 0..MaxEpochs, s \in 0..MaxSamples}

Init ==
    /\ Configs
    /\ ckpt \in {c \in StoredCheckpoints :
                    /\ c.epoch <= epochs
                    /\ c.step <= NumBatches(train_len, batch_size)}
    /\ Fresh

InitFresh ==
    /\ Configs
    /\ ckpt = NoCheckpoint
    /\ Fresh

\* ---------------------------------------------------------------- actions
\* train, up to the loop: load the checkpoint, set the cadence counter
Load ==
    /\ pc = "idle"
    /\ LET r == load_checkpoint(ckpt) IN
        /\ start_epoch' = r[1]
        /\ start_step' = r[2]
        /\ epoch_iter' = r[1]
        /\ resume_point' = r
        /\ loaded' = ckpt.exists
    /\ IF ckpt.exists
       THEN /\ weights' = ckpt.weights
            /\ opt_steps' = ckpt.opt_steps
            /\ sched_steps' = ckpt.sched_steps
            /\ training_stats' = ckpt.training_stats
       ELSE UNCHANGED <<weights, opt_steps, sched_steps, training_stats>>
    /\ cnt_checkpoints' = 1
    /\ pc' = "epoch_head"
    /\ UNCHANGED <<cfgvars, ckpt, epoch, i, batch_iter, mode, batvars,
                   processed, done, saves, used_backends, runvars>>

\* (variant: train returns at once when no epoch is left to run at all)
EpochHead_EarlyReturn ==
    /\ pc = "epoch_head"
    /\ IF epoch_iter < epochs
       THEN /\ epoch' = epoch_iter
            /\ epoch_iter' = epoch_iter + 1
            /\ mode' = "train"
            /\ batch_iter' = 0
            /\ pc' = "fetch"
       ELSE /\ pc' = IF start_epoch >= epochs THEN "finished"
                     ELSE "final_save"
            /\ UNCHANGED <<epoch, epoch_iter, mode, batch_iter>>
    /\ UNCHANGED <<cfgvars, ckpt, start_epoch, start_step, i, cnt_checkpoints,
                   weights, opt_steps, sched_steps, training_stats, batvars,
                   hisvars, runvars>>

\* (variant: every pass of the loop runs the epoch of the resume point)
EpochHead_SameEpoch ==
    /\ pc = "epoch_head"
    /\ IF epoch_iter < epochs
       THEN /\ epoch' = start_epoch
            /\ epoch_iter' = epoch_iter + 1
            /\ mode' = "train"
            /\ batch_iter' = 0
            /\ pc' = "fetch"
       ELSE /\ pc' = "final_save"
            /\ UNCHANGED <<epoch, epoch_iter, mode, batch_iter>>
    /\ UNCHANGED <<cfgvars, ckpt, start_epoch, start_step, i, cnt_checkpoints,
                   weights, opt_steps, sched_steps, training_stats, batvars,
                   hisvars, runvars>>

\* (variant: the epoch head leaves the model's mode as the last epoch
\* left it)
EpochHead_KeepsMode ==
    /\ pc = "epoch_head"
    /\ IF epoch_iter < epochs
       THEN /\ epoch' = epoch_iter
            /\ epoch_iter' = epoch_iter + 1
            /\ batch_iter' = 0
            /\ pc' = "fetch"
            /\ UNCHANGED mode
       ELSE /\ pc' = "final_save"
            /\ UNCHANGED <<epoch, epoch_iter, mode, batch_iter>>
    /\ UNCHANGED <<cfgvars, ckpt, start_epoch, start_step, i, cnt_checkpoints,
                   weights, opt_steps, sched_steps, training_stats, batvars,
                   hisvars, runvars>>

\* "for epoch in range(start_epoch, epochs): self.model.train()"
EpochHead ==
    /\ pc = "epoch_head"
    /\ IF epoch_iter < epochs
       THEN /\ epoch' = epoch_iter
            /\ epoch_iter' = epoch_iter + 1
            /\ mode' = "train"
            /\ batch_iter' = 0
            /\ pc' = "fetch"
       ELSE /\ pc' = "final_save"
            /\ UNCHANGED <<epoch, epoch_iter, mode, batch_iter>>
    /\ UNCHANGED <<cfgvars, ckpt, start_epoch, start_step, i, cnt_checkpoints,
                   weights, opt_steps, sched_steps, training_stats, batvars,
                   hisvars, runvars>>

\* "for i, inputs in enumerate(self.train_dataloader)": a batch below
\* start_step is iterated and dropped
TrainSkip ==
    /\ pc = "fetch"
    /\ batch_iter < NumBatches(train_len, batch_size)
    /\ SkipBatch(batch_iter, start_step)
    /\ i' = batch_iter
    /\ batch_iter' = batch_iter + 1
    /\ UNCHANGED <<cfgvars, ckpt, pc, start_epoch, start_step, epoch,
                   epoch_iter, cnt_checkpoints, modvars, batvars, hisvars,
                   runvars>>

\* the next batch is taken for a training step
TrainTake ==
    /\ pc = "fetch"
    /\ batch_iter < NumBatches(train_len, batch_size)
    /\ ~SkipBatch(batch_iter, start_step)
    /\ i' = batch_iter
    /\ batch_iter' = batch_iter + 1
    /\ cur_len' = 0 /\ fwd_calls' = 0 /\ calls' = <<>>
    /\ forward_out' = <<>> /\ est_output' = <<>>
    /\ pc' = "forward"
    /\ UNCHANGED <<cfgvars, ckpt, start_epoch, start_step, epoch, epoch_iter,
                   cnt_checkpoints, modvars, error, hisvars, runvars>>

\* the training dataloader is exhausted
TrainExhausted ==
    /\ pc = "fetch"
    /\ batch_iter >= NumBatches(train_len, batch_size)
    /\ pc' = "val_head"
    /\ UNCHANGED <<cfgvars, ckpt, start_epoch, start_step, epoch, epoch_iter,
                   i, batch_iter, cnt_checkpoints, modvars, batvars, hisvars,
                   runvars>>

\* tokenize and run the forward pass: the engine under deepspeed, otherwise
\* get_reward
TrainForward ==
    /\ pc = "forward"
    /\ \E len \in 1..MaxTokLen :
        LET bsz == BatchLen(train_len, batch_size, i) IN
        /\ cur_len' = len
        /\ IF deepspeed_enable
           THEN /\ calls' = calls \o ForwardCalls(deepspeed_enable)
                /\ fwd_calls' = fwd_calls + 1
                /\ forward_out' = forward(bsz, len)
                /\ est_output' = LastPosition(forward(bsz, len))
                /\ pc' = "loss"
                /\ UNCHANGED error
           ELSE LET r == get_reward(bsz, len, max_sequence_length) IN
                /\ fwd_calls' = fwd_calls + r.forward_calls
                /\ forward_out' = r.forward_out
                /\ est_output' = r.rewards
                /\ IF r.raised
                   THEN /\ pc' = "failed"
                        /\ error' = "length"
                        /\ UNCHANGED calls
                   ELSE /\ pc' = "loss"
                        /\ calls' = calls \o ForwardCalls(deepspeed_enable)
                        /\ UNCHANGED error
    /\ used_backends' = used_backends \cup BackendsOf(calls')
    /\ UNCHANGED <<cfgvars, ckpt, start_epoch, start_step, epoch, epoch_iter,
                   i, batch_iter, cnt_checkpoints, modvars, resume_point,
                   loaded, processed, done, saves, runvars>>

\* (variant: the error of a malformed batch is swallowed and the loop goes on
\* with the next batch)
TrainMalformed_Swallowed ==
    /\ pc = "forward"
    /\ error' = "malformed"
    /\ pc' = "fetch"
    /\ UNCHANGED <<cfgvars, ckpt, start_epoch, start_step, epoch, epoch_iter,
                   i, batch_iter, cnt_checkpoints, modvars, cur_len,
                   fwd_calls, calls, forward_out, est_output, hisvars,
                   runvars>>

\* the batch is malformed: unpacking or tokenizing it raises, before any
\* forward pass
TrainMalformed ==
    /\ pc = "forward"
    /\ error' = "malformed"
    /\ pc' = "failed"
    /\ UNCHANGED <<cfgvars, ckpt, start_epoch, start_step, epoch, epoch_iter,
                   i, batch_iter, cnt_checkpoints, modvars, cur_len,
                   fwd_calls, calls, forward_out, est_output, hisvars,
                   runvars>>

\* the backend raises inside the forward pass (or the loss computation):
\* nothing is returned to the loop
TrainForwardError ==
    /\ pc = "forward"
    /\ \E len \in 1..MaxTokLen :
        /\ deepspeed_enable \/ ~LengthViolation(len, max_sequence_length)
        /\ cur_len' = len
    /\ fwd_calls' = fwd_calls + 1
    /\ calls' = calls \o ForwardCalls(deepspeed_enable)
    /\ used_backends' = used_backends \cup BackendsOf(calls')
    /\ error' = "forward"
    /\ pc' = "failed"
    /\ UNCHANGED <<cfgvars, ckpt, start_epoch, start_step, epoch, epoch_iter,
                   i, batch_iter, cnt_checkpoints, modvars, forward_out,
                   est_output, resume_point, loaded, processed, done, saves,
                   runvars>>

\* (variant: the loss is recorded only after the backward pass, so that the
\* log is rewritten from the batches done so far)
TrainLoss_Rewrite ==
    /\ pc = "loss"
    /\ training_stats' = <<TrainRec(epoch, i)>>
    /\ pc' = "backward"
    /\ UNCHANGED <<cfgvars, ckpt, start_epoch, start_step, epoch, epoch_iter,
                   i, batch_iter, cnt_checkpoints, mode, weights, opt_steps,
                   sched_steps, batvars, hisvars, runvars>>

\* "loss = ...; self.append_training_stats(training_loss=loss.item())"
TrainLoss ==
    /\ pc = "loss"
    /\ training_stats' = Append(training_stats, TrainRec(epoch, i))
    /\ pc' = "backward"
    /\ UNCHANGED <<cfgvars, ckpt, start_epoch, start_step, epoch, epoch_iter,
                   i, batch_iter, cnt_checkpoints, mode, weights, opt_steps,
                   sched_steps, batvars, hisvars, runvars>>

\* the backward pass of the selected backend
TrainBackward ==
    /\ pc = "backward"
    /\ LET bc == BackwardCalls(deepspeed_enable, accelerate_enable) IN
        /\ calls' = calls \o bc
        /\ opt_steps' = opt_steps + Count(bc, "optimizer.step")
                                  + Count(bc, "model_engine.step")
        /\ sched_steps' = sched_steps + Count(bc, "scheduler.step")
        /\ weights' = IF Count(bc, "optimizer.step")
                          + Count(bc, "model_engine.step") > 0
                      THEN Append(weights, <<epoch, i>>)
                      ELSE weights
    /\ processed' = processed + 1
    /\ done' = Append(done, <<epoch, i>>)
    /\ used_backends' = used_backends \cup BackendsOf(calls')
    /\ pc' = "checkpoint"
    /\ UNCHANGED <<cfgvars, ckpt, start_epoch, start_step, epoch, epoch_iter,
                   i, batch_iter, cnt_checkpoints, mode, training_stats,
                   cur_len, fwd_calls, forward_out, est_output, error,
                   resume_point, loaded, saves, runvars>>

\* the backend raises inside the backward pass: the calls before the raising
\* one have taken effect
TrainBackwardError ==
    /\ pc = "backward"
    /\ \E m \in 1..Len(BackwardCalls(deepspeed_enable, accelerate_enable)) :
        LET bc == SubSeq(BackwardCalls(deepspeed_enable, accelerate_enable),
                         1, m - 1)
        IN  /\ calls' = calls \o bc
            /\ opt_steps' = opt_steps + Count(bc, "optimizer.step")
                                      + Count(bc, "model_engine.step")
            /\ sched_steps' = sched_steps + Count(bc, "scheduler.step")
            /\ weights' = IF Count(bc, "optimizer.step")
                              + Count(bc, "model_engine.step") > 0
                          THEN Append(weights, <<epoch, i>>)
                          ELSE weights
    /\ used_backends' = used_backends \cup BackendsOf(calls')
    /\ error' = "backward"
    /\ pc' = "failed"
    /\ UNCHANGED <<cfgvars, ckpt, start_epoch, start_step, epoch, epoch_iter,
                   i, batch_iter, cnt_checkpoints, mode, training_stats,
                   cur_len, fwd_calls, forward_out, est_output,
                   resume_point, loaded, processed, done, saves, runvars>>

\* "if cnt_checkpoints % checkpoint_steps == 0: save_checkpoint(...)"
TrainCheckpoint ==
    /\ pc = "checkpoint"
    /\ IF CadenceDue(cnt_checkpoints, checkpoint_steps)
       THEN /\ ckpt' = Checkpoint(epoch, i)
            /\ saves' = Append(saves,
                          SaveRec("checkpoint", epoch, i, epochs, n_iter))
       ELSE UNCHANGED <<ckpt, saves>>
    /\ cnt_checkpoints' = CadenceNext(cnt_checkpoints, checkpoint_steps)
    /\ pc' = "fetch"
    /\ UNCHANGED <<cfgvars, start_epoch, start_step, epoch, epoch_iter, i,
                   batch_iter, modvars, batvars, resume_point, loaded,
                   processed, done, used_backends, runvars>>

\* "if self.validation_flag: self.model.eval(); with torch.no_grad(): ..."
ValHead ==
    /\ pc = "val_head"
    /\ IF validation_flag
       THEN /\ mode' = "eval"
            /\ batch_iter' = 0
            /\ pc' = "val_fetch"
       ELSE /\ pc' = "epoch_end"
            /\ UNCHANGED <<mode, batch_iter>>
    /\ UNCHANGED <<cfgvars, ckpt, start_epoch, start_step, epoch, epoch_iter,
                   i, cnt_checkpoints, weights, opt_steps, sched_steps,
                   training_stats, batvars, hisvars, runvars>>

\* (variant: a validation batch also advances the cadence counter)
ValStep_Counts ==
    /\ pc = "val_fetch"
    /\ batch_iter < NumBatches(val_len, batch_size)
    /\ i' = batch_iter
    /\ batch_iter' = batch_iter + 1
    /\ \E len \in 1..MaxTokLen :
        LET r == get_reward(BatchLen(val_len, batch_size, batch_iter), len,
                            max_sequence_length) IN
        /\ cur_len' = len
        /\ fwd_calls' = r.forward_calls
        /\ forward_out' = r.forward_out
        /\ est_output' = r.rewards
        /\ error' = IF r.raised THEN "length" ELSE error
        /\ IF r.raised
           THEN /\ pc' = "failed"
                /\ calls' = <<>>
                /\ UNCHANGED <<training_stats, cnt_checkpoints>>
           ELSE /\ pc' = "val_fetch"
                /\ calls' = <<"model.get_reward">>
                /\ training_stats' =
                       Append(training_stats, ValRec(epoch, batch_iter))
                /\ cnt_checkpoints' =
                       CadenceNext(cnt_checkpoints, checkpoint_steps)
    /\ UNCHANGED <<cfgvars, ckpt, start_epoch, start_step, epoch, epoch_iter,
                   mode, weights, opt_steps, sched_steps, hisvars, runvars>>

\* one validation batch: tokenize, get_reward, record the validation loss
ValStep ==
    /\ pc = "val_fetch"
    /\ batch_iter < NumBatches(val_len, batch_size)
    /\ i' = batch_iter
    /\ batch_iter' = batch_iter + 1
    /\ \E len \in 1..MaxTokLen :
        LET r == get_reward(BatchLen(val_len, batch_size, batch_iter), len,
                            max_sequence_length) IN
        /\ cur_len' = len
        /\ fwd_calls' = r.forward_calls
        /\ forward_out' = r.forward_out
        /\ est_output' = r.rewards
        /\ error' = IF r.raised THEN "length" ELSE error
        /\ IF r.raised
           THEN /\ pc' = "failed"
                /\ calls' = <<>>
                /\ UNCHANGED training_stats
           ELSE /\ pc' = "val_fetch"
                /\ calls' = <<"model.get_reward">>
                /\ training_stats' =
                       Append(training_stats, ValRec(epoch, batch_iter))
    /\ UNCHANGED <<cfgvars, ckpt, start_epoch, start_step, epoch, epoch_iter,
                   cnt_checkpoints, mode, weights, opt_steps, sched_steps,
                   hisvars, runvars>>

\* a validation batch is malformed, or the backend raises inside its
\* forward pass
ValError ==
    /\ pc = "val_fetch"
    /\ batch_iter < NumBatches(val_len, batch_size)
    /\ i' = batch_iter
    /\ batch_iter' = batch_iter + 1
    /\ \/ /\ error' = "malformed"
          /\ cur_len' = 0 /\ fwd_calls' = 0
       \/ /\ error' = "forward"
          /\ cur_len' \in 1..max_sequence_length /\ fwd_calls' = 1
    /\ calls' = <<>> /\ forward_out' = <<>> /\ est_output' = <<>>
    /\ pc' = "failed"
    /\ UNCHANGED <<cfgvars, ckpt, start_epoch, start_step, epoch, epoch_iter,
                   cnt_checkpoints, modvars, hisvars, runvars>>

\* the validation dataloader is exhausted
ValExhausted ==
    /\ pc = "val_fetch"
    /\ batch_iter >= NumBatches(val_len, batch_size)
    /\ pc' = "epoch_end"
    /\ UNCHANGED <<cfgvars, ckpt, start_epoch, start_step, epoch, epoch_iter,
                   i, batch_iter, cnt_checkpoints, modvars, batvars, hisvars,
                   runvars>>

\* (variant: the skip threshold is kept for the following epochs)
EpochEnd_NoReset ==
    /\ pc = "epoch_end"
    /\ pc' = "epoch_head"
    /\ UNCHANGED <<cfgvars, ckpt, start_epoch, start_step, epoch, epoch_iter,
                   i, batch_iter, cnt_checkpoints, modvars, batvars, hisvars,
                   runvars>>

\* "start_step = 0" at the end of the epoch body
EpochEnd ==
    /\ pc = "epoch_end"
    /\ start_step' = 0
    /\ pc' = "epoch_head"
    /\ UNCHANGED <<cfgvars, ckpt, start_epoch, epoch, epoch_iter, i,
                   batch_iter, cnt_checkpoints, modvars, batvars, hisvars,
                   runvars>>

\* "self.model.save()": the final model snapshot; the call passes no
\* epoch and no step
FinalSave ==
    /\ pc = "final_save"
    /\ saves' = Append(saves,
                  SaveRec("final", NoProgress, NoProgress, NoProgress,
                          NoProgress))
    /\ pc' = "finished"
    /\ UNCHANGED <<cfgvars, ckpt, start_epoch, start_step, epoch, epoch_iter,
                   i, batch_iter, cnt_checkpoints, modvars, batvars,
                   resume_point, loaded, processed, done, used_backends,
                   runvars>>

\* external process termination followed by a new process: everything in
\* memory is lost, the Checkpoint Store is kept
Running == pc \notin {"idle", "finished", "failed"}

KillAndRestart ==
    /\ Running
    /\ restarts < MaxRestarts
    /\ restarts' = restarts + 1
    \* the batches whose loop iteration had completed when the process died
    /\ prev_done' = IF pc = "checkpoint"
                    THEN SubSeq(done, 1, Len(done) - 1)
                    ELSE done
    /\ pc' = "idle"
    /\ start_epoch' = 0 /\ start_step' = 0
    /\ epoch' = 0 /\ epoch_iter' = 0 /\ i' = 0 /\ batch_iter' = 0
    /\ cnt_checkpoints' = 0
    /\ mode' = "train" /\ weights' = <<>> /\ opt_steps' = 0
    /\ sched_steps' = 0 /\ training_stats' = <<>>
    /\ cur_len' = 0 /\ fwd_calls' = 0 /\ calls' = <<>>
    /\ forward_out' = <<>> /\ est_output' = <<>> /\ error' = "none"
    /\ resume_point' = <<0, 0>> /\ loaded' = FALSE
    /\ processed' = 0 /\ done' = <<>>
    /\ saves' = <<>> /\ used_backends' = {}
    /\ UNCHANGED <<cfgvars, ckpt>>

Next ==
    \/ Load
    \/ EpochHead
    \/ TrainSkip
    \/ TrainTake
    \/ TrainExhausted
    \/ TrainForward
    \/ TrainMalformed
    \/ TrainForwardError
    \/ TrainLoss
    \/ TrainBackward
    \/ TrainBackwardError
    \/ TrainCheckpoint
    \/ ValHead
    \/ ValStep
    \/ ValError
    \/ ValExhausted
    \/ EpochEnd
    \/ FinalSave

\* one run of train, from whatever checkpoint the store holds
Spec == Init /\ [][Next]_vars

\* the single control thread keeps running until train returns or raises
LiveSpec == Init /\ [][Next]_vars /\ WF_vars(Next)

NextResume == Next \/ KillAndRestart

\* a first run from an empty store, killed at any point and restarted
ResumeSpec == InitFresh /\ [][NextResume]_vars

\* ------------------------------------------------------- derived notions
CadenceSaves == {n \in 1..Len(saves) : saves[n].kind = "checkpoint"}
FinalSaves == {n \in 1..Len(saves) : saves[n].kind = "final"}

\* the processed batches whose cadence decision has been taken
Decided == IF pc = "checkpoint" THEN processed - 1 ELSE processed

IsTrainRec(r) == r.kind = "training_loss"
IsValRec(r) == r.kind = "validation_loss"
PairOf(r) == <<r.epoch, r.step>>
PairsOf(s) == [n \in 1..Len(s) |-> PairOf(s[n])]
TrainPairs == PairsOf(SelectSeq(training_stats, IsTrainRec))

\* the batches of one epoch from index s on, and of the epochs e..ne-1 with
\* the first one entered at index s
RECURSIVE BatchesFrom(_, _, _)
BatchesFrom(e, s, nb) ==
    IF s >= nb THEN <<>> ELSE <<<<e, s>>>> \o BatchesFrom(e, s + 1, nb)

RECURSIVE EpochsFrom(_, _, _, _)
EpochsFrom(e, s, ne, nb) ==
    IF e >= ne THEN <<>>
    ELSE BatchesFrom(e, s, nb) \o EpochsFrom(e + 1, 0, ne, nb)

IsPrefix(s, t) == Len(s) <= Len(t) /\ SubSeq(t, 1, Len(s)) = s

TrainBatches == NumBatches(train_len, batch_size)
ValBatches == NumBatches(val_len, batch_size)

\* ------------------------------------------------------------------ claims
\* C1: within one run, save_checkpoint is called right after the k-th
\* processed training batch iff k is a multiple of checkpoint_steps, k
\* counting processed batches across the whole run (epoch boundaries,
\* validation batches and skipped batches do not touch the count).
C1_CadenceEveryN ==
    /\ \A n \in CadenceSaves :
        /\ saves[n].k \in 1..Decided
        /\ saves[n].k % checkpoint_steps = 0
        /\ <<saves[n].epoch, saves[n].step>> = done[saves[n].k]
    /\ \A k \in 1..Decided :
        k % checkpoint_steps = 0
            => Cardinality({n \in CadenceSaves : saves[n].k = k}) = 1

\* a resumed run with validation whose second cadence save falls in a later
\* epoch than its first processed batch
C1_Witness ==
    /\ checkpoint_steps >= 2
    /\ validation_flag
    /\ resume_point[2] > 0
    /\ \E n \in CadenceSaves :
        /\ saves[n].k = 2 * checkpoint_steps
        /\ saves[n].epoch > done[1][1]

\* C2: resuming from (start_epoch, start_step), epoch start_epoch processes
\* exactly the batches with index >= start_step (the lower ones leave no
\* loss record and no optimizer update), every later epoch processes every
\* batch from index 0.
C2_ResumeSkips ==
    LET expected == EpochsFrom(resume_point[1], resume_point[2], epochs,
                               TrainBatches)
    IN  /\ IsPrefix(done, expected)
        /\ pc = "finished" => done = expected
        /\ weights \in {done, Append(done, <<epoch, i>>)}
        /\ pc # "failed" => weights = done
        /\ TrainPairs \in {done, Append(done, <<epoch, i>>)}
        /\ pc = "backward" => TrainPairs = Append(done, <<epoch, i>>)
        /\ pc \notin {"backward", "failed"} => TrainPairs = done

\* a finished run that skipped batches in its first epoch and ran a later one
C2_Witness ==
    /\ pc = "finished"
    /\ resume_point[2] > 0
    /\ resume_point[2] < TrainBatches
    /\ resume_point[1] + 1 < epochs
    /\ Len(done) = (TrainBatches - resume_point[2]) + TrainBatches

\* C3: a run killed after some step and resumed from a cadence checkpoint
\* (load returning exactly the saved epoch, step, weights and statistics)
\* finishes with every (epoch, batch index) pair having contributed exactly
\* one optimizer update and exactly one training_loss record.
C3_ResumeIdempotent ==
    (pc = "finished" /\ restarts > 0 /\ loaded) =>
        \A e \in 0..(epochs - 1), s \in 0..(TrainBatches - 1) :
            /\ Count(weights, <<e, s>>) = 1
            /\ Count(training_stats, TrainRec(e, s)) = 1

\* C4: after an unplanned stop, the resumed run processes again at most
\* checkpoint_steps - 1 of the batches that had been processed before the
\* stop.
C4_RedoBound ==
    restarts > 0 =>
        Cardinality(Range(done) \cap Range(prev_done)) <= checkpoint_steps - 1

\* C5: the validation phase changes neither the weights, nor the optimizer
\* or scheduler state, nor the cadence counter, and saves nothing; a
\* validation batch only appends one validation_loss record.
ValidationFrame ==
    pc \in {"val_head", "val_fetch"} =>
        /\ weights' = weights
        /\ opt_steps' = opt_steps
        /\ sched_steps' = sched_steps
        /\ optimizer_kind' = optimizer_kind
        /\ cnt_checkpoints' = cnt_checkpoints
        /\ saves' = saves
        /\ ckpt' = ckpt
        /\ processed' = processed
        /\ IF pc = "val_fetch" /\ pc' = "val_fetch"
           THEN training_stats' = Append(training_stats, ValRec(epoch, i'))
           ELSE training_stats' = training_stats

C5_ValidationFrame == [][ValidationFrame]_vars

\* a validation batch has just been recorded after some training
C5_Witness ==
    /\ pc = "val_fetch"
    /\ batch_iter > 0
    /\ weights # <<>>
    /\ IsValRec(Last(training_stats))
    /\ cnt_checkpoints > 1

\* the end-to-end scenario: 2 samples, batch_size 2, 1 epoch, no validation
\* path, no checkpoint in the store
EndToEndScenario ==
    /\ train_len = 2 /\ batch_size = 2 /\ epochs = 1
    /\ ~validation_flag
    /\ ~loaded

LastEpochValidated ==
    (validation_flag /\ resume_point[1] < epochs) =>
        Last(training_stats) = ValRec(epochs - 1, ValBatches - 1)

\* C7: every run of train that does not fail ends in Finished and persists
\* the final snapshot exactly once, after the training (and validation) of
\* the last epoch and after every cadence checkpoint; with a resume point
\* at or beyond the last epoch no batch is processed and the final snapshot
\* is still persisted.
C7_FinishesWithFinalSave ==
    /\ [](pc = "finished" =>
            /\ Cardinality(FinalSaves) = 1
            /\ Last(saves).kind = "final"
            /\ done = EpochsFrom(resume_point[1], resume_point[2], epochs,
                                 TrainBatches)
            /\ LastEpochValidated
            /\ (resume_point[1] >= epochs => processed = 0))
    /\ [](pc # "finished" => FinalSaves = {})
    /\ <>(pc \in {"finished", "failed"})

\* a finished run with validation that wrote cadence checkpoints before the
\* final snapshot
C7_Witness ==
    /\ pc = "finished"
    /\ validation_flag
    /\ epochs > 1
    /\ CadenceSaves # {}
    /\ Len(saves) > 2

\* the backend selected by the two flags
Variant ==
    IF deepspeed_enable THEN "distributed"
    ELSE IF accelerate_enable THEN "accelerated"
    ELSE "plain"

\* C8: whatever the two flags, every training batch of a run is executed by
\* one backend, the same for its forward and its backward/step and the same
\* for all batches: distributed if deepspeed_enable, else accelerated if
\* accelerate_enable, else plain.
C8_OneBackend ==
    /\ used_backends \subseteq {Variant, "shared"}
    /\ BackendsOf(calls) \subseteq {Variant, "shared"}
    /\ processed > 0 => Variant \in used_backends
    /\ pc \in {"loss", "backward", "checkpoint"} =>
        (Variant = "distributed" <=> BackendOf(calls[1]) = "distributed")
    /\ pc = "checkpoint" => Variant \in BackendsOf(calls)
    /\ optimizer_kind = "DeepSpeedCPUAdam" <=> Variant = "distributed"

\* both flags set, and a second batch has gone through forward and backward
C8_Witness ==
    /\ deepspeed_enable /\ accelerate_enable
    /\ pc = "checkpoint"
    /\ processed >= 2

\* C9: per processed training batch, plain and accelerated issue exactly one
\* zero_grad, then one backward (through the acceleration layer when
\* accelerated), then one optimizer step, then one scheduler step;
\* distributed issues exactly one engine backward, then one engine step, and
\* neither a zero_grad nor a scheduler step.
C9_BackendCallOrder ==
    /\ pc = "checkpoint" =>
        Tail(calls) =
            IF Variant = "distributed"
            THEN <<"model_engine.backward", "model_engine.step">>
            ELSE <<"optimizer.zero_grad",
                   IF Variant = "accelerated" THEN "accelerator.backward"
                   ELSE "loss.backward",
                   "optimizer.step", "scheduler.step">>
    /\ pc \in {"forward", "loss", "backward"} => Len(calls) <= 1
    /\ pc # "failed" =>
        /\ opt_steps = processed
        /\ sched_steps = IF Variant = "distributed" THEN 0 ELSE processed

\* the accelerated backend has completed the backward pass of a second batch
C9_Witness ==
    /\ Variant = "accelerated"
    /\ pc = "checkpoint"
    /\ processed >= 2
    /\ sched_steps >= 2

\* C10: in every training and validation step, under each backend, a batch
\* longer than max_sequence_length raises before any forward pass of the
\* model is run on it.
C10_LengthCheckedBeforeForward ==
    fwd_calls > 0 => cur_len <= max_sequence_length

\* a call of get_reward on the current batch has returned
GetRewardReturned ==
    \/ ~deepspeed_enable /\ pc \in {"loss", "backward", "checkpoint"}
    \/ pc = "val_fetch" /\ batch_iter > 0

\* C11: get_reward raises the length error iff the sequence length is
\* strictly greater than max_sequence_length (a length equal to it is
\* accepted); when it raises the model's forward has been called zero times
\* on the batch, when it returns exactly once.
C11_LengthCheck ==
    /\ error = "length" =>
        pc = "failed" /\ cur_len > max_sequence_length /\ fwd_calls = 0
    /\ (error = "forward" /\ ~deepspeed_enable) =>
        cur_len <= max_sequence_length /\ fwd_calls = 1
    /\ GetRewardReturned =>
        cur_len <= max_sequence_length /\ fwd_calls = 1

\* get_reward has accepted a batch of exactly the maximum length
C11_Witness ==
    /\ GetRewardReturned
    /\ pc = "loss"
    /\ cur_len = max_sequence_length
    /\ fwd_calls = 1

\* the failed batch has left no trace in the statistics, the weights or the
\* optimizer and scheduler
FailedBatchLeftNoTrace ==
    /\ IF mode = "train"
       THEN TrainRec(epoch, i) \notin Range(training_stats)
       ELSE ValRec(epoch, i) \notin Range(training_stats)
    /\ TrainPairs = done
    /\ weights = done
    /\ opt_steps = processed
    /\ sched_steps = IF deepspeed_enable THEN 0 ELSE processed

\* the run has stopped for good: nothing is retried, no later batch is
\* taken, no checkpoint and no final snapshot is written
Aborted ==
    /\ pc = "failed"
    /\ ~ENABLED Next
    /\ FinalSaves = {}
    /\ \A n \in CadenceSaves : saves[n].k <= processed

\* C12 (as stated): when a training or validation step fails (length
\* violation, malformed batch, backend error) the run aborts at that step,
\* with no loss record and no optimizer or scheduler step for the failed
\* batch, no later checkpoint and no final snapshot.
C12_FailureLeavesNoTrace ==
    error # "none" => Aborted /\ FailedBatchLeftNoTrace

\* C12 (amended): a failing step aborts the run (no retry, no later batch,
\* no later checkpoint, no final snapshot); a step that fails before or in
\* its forward pass leaves no loss record and no optimizer or scheduler step
\* for the failed batch; a backend error in the backward pass comes after
\* the batch's training_loss record was appended and after the backend
\* calls that precede the raising one.
C12_AbortOnFailure ==
    /\ error # "none" <=> pc = "failed"
    /\ error # "none" => Aborted
    /\ error \in {"length", "malformed", "forward"} => FailedBatchLeftNoTrace
    /\ error = "backward" =>
        /\ TrainPairs = Append(done, <<epoch, i>>)
        /\ Last(training_stats) = TrainRec(epoch, i)
        /\ weights \in {done, Append(done, <<epoch, i>>)}
        /\ opt_steps - processed \in {0, 1}
        /\ sched_steps - (IF deepspeed_enable THEN 0 ELSE processed) = 0

\* the backward pass of a later batch of the run has raised
C12_Witness ==
    /\ pc = "failed"
    /\ error = "backward"
    /\ processed >= 1
    /\ Len(training_stats) > processed

\* lexicographic order on (epoch, step) pairs
LexLess(a, b) == a[1] < b[1] \/ (a[1] = b[1] /\ a[2] < b[2])

IsCadenceSave(r) == r.kind = "checkpoint"
SavePairs == PairsOf(SelectSeq(saves, IsCadenceSave))

\* the pairs of s increase strictly and none is below the resume point
Advancing(s) ==
    /\ \A n \in 1..(Len(s) - 1) : LexLess(s[n], s[n + 1])
    /\ \A n \in 1..Len(s) : ~LexLess(s[n], resume_point)

\* C13: within one run the (epoch, step) pairs of the processed batches and
\* of the successive save_checkpoint calls increase strictly in
\* lexicographic order and are never below the resume point; the step
\* restarts at 0 only when the epoch advances by one.
C13_ProgressNeverRegresses ==
    /\ Advancing(done)
    /\ Advancing(SavePairs)
    /\ \A n \in 1..(Len(done) - 1) :
        \/ done[n + 1] = <<done[n][1], done[n][2] + 1>>
        \/ done[n + 1] = <<done[n][1] + 1, 0>>
    /\ \A n \in 1..(Len(SavePairs) - 1) :
        SavePairs[n + 1][2] <= SavePairs[n][2] =>
            SavePairs[n + 1][1] > SavePairs[n][1]

\* a resumed run has crossed an epoch boundary and saved in both epochs
C13_Witness ==
    /\ resume_point[2] > 0
    /\ \E n \in 1..(Len(done) - 1) : done[n + 1] = <<done[n][1] + 1, 0>>
    /\ Len(SavePairs) >= 2
    /\ SavePairs[1][1] < SavePairs[Len(SavePairs)][1]

\* the place of a record in the order of execution: its epoch, training
\* before validation, then its batch index
StatsBefore(r, q) ==
    \/ r.epoch < q.epoch
    \/ r.epoch = q.epoch /\ IsTrainRec(r) /\ IsValRec(q)
    \/ r.epoch = q.epoch /\ r.kind = q.kind /\ r.step < q.step

StatsInOrder ==
    \A n \in 1..(Len(training_stats) - 1) :
        StatsBefore(training_stats[n], training_stats[n + 1])

\* what one step of the loop does to the statistics log
StatsStep ==
    pc # "idle" =>
        IF pc = "loss"
        THEN training_stats' = Append(training_stats, TrainRec(epoch, i))
        ELSE IF pc = "val_fetch" /\ pc' = "val_fetch"
        THEN training_stats' = Append(training_stats, ValRec(epoch, i'))
        ELSE training_stats' = training_stats

\* C14: during the training loop the statistics log only grows: a processed
\* training batch appends exactly one training_loss record, a validation
\* batch exactly one validation_loss record, a skipped batch none; no
\* record is removed or changed; the records are in execution order (per
\* epoch its training records, then its validation records).
C14_StatsAppendOnly ==
    /\ [][StatsStep]_vars
    /\ [](StatsInOrder)
    /\ [](\A p \in Range(done) : Count(training_stats, TrainRec(p[1], p[2])) = 1)

\* a resumed run with validation has logged a training record of a later
\* epoch right after a validation record
C14_Witness ==
    /\ resume_point[2] > 0
    /\ \E n \in 1..(Len(training_stats) - 1) :
        /\ IsValRec(training_stats[n])
        /\ IsTrainRec(training_stats[n + 1])
    /\ Len(training_stats) >= 3

\* the number of examples of the batch a step is working on
CurBatchLen ==
    IF mode = "train" THEN BatchLen(train_len, batch_size, i)
    ELSE BatchLen(val_len, batch_size, i)

\* C15: for every batch the length check accepts, get_reward returns one
\* value per example, and for each example exactly the value forward
\* returned for it at the last sequence position.
C15_RewardIsLastPosition ==
    GetRewardReturned =>
        /\ Len(forward_out) = CurBatchLen
        /\ Len(est_output) = CurBatchLen
        /\ \A x \in 1..CurBatchLen :
            /\ Len(forward_out[x]) = cur_len
            /\ est_output[x] = forward_out[x][cur_len]

\* get_reward has returned for a validation batch of two examples of two
\* tokens
C15_Witness ==
    /\ GetRewardReturned
    /\ mode = "eval"
    /\ CurBatchLen = 2
    /\ cur_len = 2
    /\ est_output = <<Reward(1, 2), Reward(2, 2)>>

\* C16: every cadence checkpoint saved with (epoch, i) is taken after the
\* optimizer step of batch i of that epoch and before anything later
\* starts: its weights end with the update of batch i, hold that update
\* once, and its statistics end with the training_loss record of batch i.
C16_CheckpointAfterStep ==
    \A n \in CadenceSaves :
        LET s == saves[n] IN
        /\ s.weights # <<>>
        /\ Last(s.weights) = <<s.epoch, s.step>>
        /\ Count(s.weights, <<s.epoch, s.step>>) = 1
        /\ s.training_stats # <<>>
        /\ Last(s.training_stats) = TrainRec(s.epoch, s.step)
        /\ Len(s.weights) = s.k

\* a cadence checkpoint was saved after a validation pass had run, and the
\* run has since applied a further update the snapshot does not hold
C16_Witness ==
    \E n \in CadenceSaves :
        /\ \E m \in 1..Len(saves[n].training_stats) :
               IsValRec(saves[n].training_stats[m])
        /\ Len(weights) > Len(saves[n].weights)
        /\ IsPrefix(saves[n].weights, weights)

\* C17: in every save_checkpoint(epoch, i, epochs, n_iter) call made by
\* train, the step index i is strictly less than the reported steps per
\* epoch n_iter and epoch is strictly less than epochs.
C17_StepBelowReportedTotal ==
    \A n \in CadenceSaves :
        /\ saves[n].max_steps = n_iter
        /\ saves[n].max_epochs = epochs
        /\ saves[n].epoch < saves[n].max_epochs
        /\ saves[n].step < saves[n].max_steps

\* the positions of the loop inside a training step, and inside validation
InTrainingStep == pc \in {"fetch", "forward", "loss", "backward", "checkpoint"}

InValidationStep == pc = "val_fetch"

\* C18: the model is in training mode during every training step and in
\* evaluation mode during every validation step, in every epoch: the
\* evaluation mode of one epoch's validation never carries over into the
\* training steps of the next epoch, and no optimizer step is made while
\* the model is in evaluation mode.
C18_ModeMatchesPhase ==
    /\ InTrainingStep => mode = "train"
    /\ InValidationStep => mode = "eval"
    /\ ENABLED TrainBackward => mode = "train"
    /\ mode = "eval" => validation_flag

\* the optimizer step of a batch is about to run in an epoch that follows
\* a validation pass
C18_Witness ==
    /\ pc = "backward"
    /\ mode = "train"
    /\ validation_flag
    /\ \E n \in 1..Len(training_stats) :
           IsValRec(training_stats[n]) /\ training_stats[n].epoch < epoch

TypeOK ==
    /\ pc \in {"idle", "epoch_head", "fetch", "forward", "loss", "backward",
               "checkpoint", "val_head", "val_fetch", "epoch_end",
               "final_save", "finished", "failed"}
    /\ mode \in {"train", "eval"}
    /\ cnt_checkpoints \in 0..checkpoint_steps
====
